---- MODULE Spec2Model ----
(***************************************************************************)
(* The detection script weapondetection.py as a state machine.             *)
(*                                                                         *)
(* The script is executed top to bottom once per user interaction.  A run  *)
(* is modelled by the program counter pc walking through the script; the   *)
(* user acts between runs on the widgets the last run rendered.  Widget    *)
(* values live in the session, a button reads true only in the run its     *)
(* click caused, and the value of a widget a completed run did not render  *)
(* is dropped.  The detector and the capture library are external: a       *)
(* detector call either returns or raises, a camera read either delivers   *)
(* a frame or fails.  The inert sidebar inputs (maximum boxes, device,     *)
(* confidence threshold) do not influence control flow; changing one of    *)
(* them is the action Rerun.                                               *)
(***************************************************************************)
EXTENDS Integers, Sequences, FiniteSets, TLC

\* ---------------------------------------------------------------- bounds
MaxFrames == 2        \* longest uploaded video / camera stream, in frames
MaxTime == 3          \* largest clock reading of one run, in seconds
MaxInterval == 2      \* largest snapshot interval the user types in

\* ------------------------------------------------------ program constants
DefaultInterval == 5
FPS == 20

RadioOptions == {"Upload Image", "Upload Video", "Livecam Detection"}
GuardedOptions ==
  {"Upload Image", "Upload Video", "Webcam Detection", "IP Camera Detection"}
Cameras == {"webcam", "ipcam"}
Sources == {"image", "video", "webcam", "ipcam"}

NoFile == [present |-> FALSE, opens |-> FALSE, frames |-> 0]
VideoFiles ==
  {[present |-> TRUE, opens |-> FALSE, frames |-> 0]}
    \cup {[present |-> TRUE, opens |-> TRUE, frames |-> n] : n \in 0..MaxFrames}

Widgets ==
  {"option", "save_option", "uploaded_image", "uploaded_video",
   "auto_snapshot", "snapshot_interval", "ip_url", "save_video"}
Buttons ==
  {"Take Snapshot", "Start Webcam Detection", "Start IP Camera Detection"}

Default ==
  [option |-> "Upload Image", save_option |-> "Yes",
   uploaded_image |-> FALSE, uploaded_video |-> NoFile,
   auto_snapshot |-> FALSE, snapshot_interval |-> DefaultInterval,
   ip_url |-> "", save_video |-> "No"]

NoCap == [state |-> "none", pos |-> 0, releases |-> 0, late |-> 0]
NoOutput == [written |-> FALSE, frames |-> <<>>, fps |-> 0]

VARIABLES
  selector,           \* the values the input-type selector can deliver
  session,            \* widget values kept by the framework between runs
  clicked,            \* the button whose click caused the current run
  rendered,           \* widgets and buttons rendered so far in the run
  model_cache,        \* st.cache_resource entry of load_model
  loads,              \* number of times the weights were loaded
  pc,                 \* position of the run in the script
  handler,            \* the per-source handler the run is in
  cap,                \* the capture handle
  tfile,              \* the temporary file of the uploaded video
  ret, frame, reads,  \* result of the last cap.read() and number of reads
  detected,           \* frames the detector returned a result for
  shown,              \* frames whose result was displayed
  processed_frames,   \* the list kept by the camera handlers
  now,                \* time.time()
  last_snapshot_time, snapshot_button,
  snapshots,          \* snapshot displays of the run
  ui,                 \* other elements the run has put on the page
  video_file,         \* the annotated video written by VideoWriter
  detectedFrom        \* sources a frame of which reached the detector

vars ==
  <<selector, session, clicked, rendered, model_cache, loads, pc, handler,
    cap, tfile, ret, frame, reads, detected, shown, processed_frames, now,
    last_snapshot_time, snapshot_button, snapshots, ui, video_file,
    detectedFrom>>

runVars ==
  <<handler, cap, tfile, ret, frame, reads, detected, shown,
    processed_frames, now, last_snapshot_time, snapshot_button, snapshots, ui>>

option == session.option
save_option == session.save_option
uploaded_image == session.uploaded_image
uploaded_video == session.uploaded_video
auto_snapshot == session.auto_snapshot
snapshot_interval == session.snapshot_interval
ip_url == session.ip_url

RunEnded == pc \in {"done", "failed"}

\* The state at the top of the script, before line 1 of a run.
FreshRun ==
  /\ pc = "load" /\ rendered = {} /\ handler = "none" /\ cap = NoCap
  /\ tfile = "none" /\ ret = FALSE /\ frame = 0 /\ reads = 0
  /\ detected = <<>> /\ shown = <<>> /\ processed_frames = <<>>
  /\ now = 0 /\ last_snapshot_time = 0 /\ snapshot_button = FALSE
  /\ snapshots = <<>> /\ ui = {}

Begin ==
  /\ session = Default /\ clicked = "none"
  /\ model_cache = FALSE /\ loads = 0
  /\ video_file = NoOutput /\ detectedFrom = {}
  /\ FreshRun

Init == selector = RadioOptions /\ Begin

\* Every value a handler guard tests for, whatever the selector offers.
InitAnySelector == selector = RadioOptions \cup GuardedOptions /\ Begin

\* ------------------------------------------------------------ the script

\* load_model without the cache decorator: every run calls the body.
CacheHit_Never(cached) == FALSE

\* @st.cache_resource: a cached entry is returned without calling the body.
CacheHit(cached) == cached

\* model = load_model()
LoadModel ==
  /\ pc = "load"
  /\ IF CacheHit(model_cache)
       THEN UNCHANGED <<model_cache, loads>>
       ELSE model_cache' = TRUE /\ loads' = loads + 1
  /\ pc' = "sidebar"
  /\ UNCHANGED <<selector, session, clicked, rendered, video_file,
                 detectedFrom>>
  /\ UNCHANGED runVars

\* title, the input-type radio, the sidebar settings, model.to(DEVICES)
Sidebar ==
  /\ pc = "sidebar"
  /\ rendered' = rendered \cup {"option", "save_option"}
  /\ pc' = "chain1"
  /\ UNCHANGED <<selector, session, clicked, model_cache, loads, video_file,
                 detectedFrom>>
  /\ UNCHANGED runVars

\* if option == "Upload Image": ... elif option == "Upload Video": ...
\* up to the test of the uploader's value; Image.open for an uploaded image.
Chain1 ==
  /\ pc = "chain1"
  /\ IF option = "Upload Image"
       THEN /\ rendered' = rendered \cup {"uploaded_image"}
            /\ handler' = IF uploaded_image THEN "image" ELSE handler
            /\ frame' = IF uploaded_image THEN 1 ELSE frame
            /\ pc' = IF uploaded_image THEN "detect" ELSE "chain2"
       ELSE IF option = "Upload Video"
         THEN /\ rendered' = rendered \cup {"uploaded_video"}
              /\ pc' = IF uploaded_video.present THEN "vid_setup" ELSE "chain2"
              /\ UNCHANGED <<handler, frame>>
         ELSE /\ pc' = "chain2"
              /\ UNCHANGED <<rendered, handler, frame>>
  /\ UNCHANGED <<selector, session, clicked, model_cache, loads, video_file,
                 detectedFrom, cap, tfile, ret, reads, detected, shown,
                 processed_frames, now, last_snapshot_time, snapshot_button,
                 snapshots, ui>>

\* The temporary file, the capture on it, the snapshot controls and
\* last_snapshot_time = time.time().
VideoSetup ==
  /\ pc = "vid_setup"
  /\ tfile' = "exists"
  /\ cap' = [NoCap EXCEPT
               !.state = IF uploaded_video.opens THEN "open" ELSE "closed"]
  /\ rendered' = rendered
                   \cup {"Take Snapshot", "auto_snapshot", "snapshot_interval"}
  /\ snapshot_button' = (clicked = "Take Snapshot")
  /\ last_snapshot_time' = now
  /\ handler' = "video"
  /\ pc' = "loop_test"
  /\ UNCHANGED <<selector, session, clicked, model_cache, loads, video_file,
                 detectedFrom, ret, frame, reads, detected, shown,
                 processed_frames, now, snapshots, ui>>

\* cap.isOpened()
LoopCond(c) == c.state = "open"

\* while cap.isOpened():
LoopTest ==
  /\ pc = "loop_test"
  /\ pc' = IF LoopCond(cap) THEN "read" ELSE "release"
  /\ UNCHANGED <<selector, session, clicked, rendered, model_cache, loads,
                 video_file, detectedFrom>>
  /\ UNCHANGED runVars

\* What cap.read() can return: a file delivers its frames and then fails, a
\* camera delivers or fails as it pleases (at most MaxFrames frames here).
ReadOutcomes ==
  IF handler = "video"
    THEN {cap.pos < uploaded_video.frames}
    ELSE IF cap.pos < MaxFrames THEN BOOLEAN ELSE {FALSE}

\* The camera loops without their st.warning(...).
ReadWarning_Never(h, r) == FALSE

\* st.warning(...) of the camera loops; the upload loop has none.
ReadWarning(h, r) == ~r /\ h \in Cameras

\* A break that does not look at ret.
AfterRead_BreakAlways(r) == "release"

\* if not ret: break
AfterRead(r) == IF r THEN "detect" ELSE "release"

\* ret, frame = cap.read() and the test of ret
CapRead ==
  /\ pc = "read"
  /\ \E r \in ReadOutcomes :
       /\ ret' = r
       /\ frame' = IF r THEN cap.pos + 1 ELSE 0
       /\ cap' = [cap EXCEPT
                    !.pos = IF r THEN @ + 1 ELSE @,
                    !.late = IF cap.state = "released" THEN @ + 1 ELSE @]
       /\ ui' = IF ReadWarning(handler, r) THEN ui \cup {"warning"} ELSE ui
       /\ pc' = AfterRead(r)
  /\ reads' = reads + 1
  /\ UNCHANGED <<selector, session, clicked, rendered, model_cache, loads,
                 video_file, detectedFrom, handler, tfile, detected, shown,
                 processed_frames, now, last_snapshot_time, snapshot_button,
                 snapshots>>

\* model(frame, ...) returns; the camera loops keep results[0].plot().
DetectOK ==
  /\ pc = "detect"
  /\ detected' = Append(detected, frame)
  /\ processed_frames' = IF handler \in Cameras
                           THEN Append(processed_frames, frame)
                           ELSE processed_frames
  /\ detectedFrom' = detectedFrom \cup {handler}
  /\ pc' = IF handler = "image" THEN "img_display" ELSE "frame_out"
  /\ UNCHANGED <<selector, session, clicked, rendered, model_cache, loads,
                 video_file, handler, cap, tfile, ret, frame, reads, shown,
                 now, last_snapshot_time, snapshot_button, snapshots, ui>>

\* model(frame, ...) raises; nothing in the script catches it.
DetectFail ==
  /\ pc = "detect"
  /\ detectedFrom' = detectedFrom \cup {handler}
  /\ pc' = "failed"
  /\ UNCHANGED <<selector, session, clicked, rendered, model_cache, loads,
                 video_file>>
  /\ UNCHANGED runVars

\* The save block of the image handler without its test.
OfferDownload_Always(so) == TRUE

\* if save_option == "Yes":
OfferDownload(so) == so = "Yes"

\* display_results(result, image) and the save block of the image handler
ImageDisplay ==
  /\ pc = "img_display"
  /\ shown' = Append(shown, frame)
  /\ ui' = ui \cup {"inline"}
              \cup (IF OfferDownload(save_option)
                      THEN {"sidebar_image", "download_button"} ELSE {})
  /\ pc' = "chain2"
  /\ UNCHANGED <<selector, session, clicked, rendered, model_cache, loads,
                 video_file, detectedFrom, handler, cap, tfile, ret, frame,
                 reads, detected, processed_frames, now, last_snapshot_time,
                 snapshot_button, snapshots>>

\* The snapshot test without the comparison with the interval.
SnapshotDue_NoInterval(button, auto, current_time, last, interval) ==
  button \/ auto

\* if snapshot_button or (auto_snapshot and
\*                        current_time - last_snapshot_time >= snapshot_interval):
SnapshotDue(button, auto, current_time, last, interval) ==
  button \/ (auto /\ current_time - last >= interval)

\* The rest of a loop body: the snapshot logic and frame info of the upload
\* loop, the placeholder update and frame info of the camera loops.
FrameOut ==
  /\ pc = "frame_out"
  /\ \E current_time \in (IF handler = "video" THEN now..MaxTime ELSE {now}) :
       /\ now' = current_time
       /\ IF handler = "video"
             /\ SnapshotDue(snapshot_button, auto_snapshot, current_time,
                            last_snapshot_time, snapshot_interval)
            THEN /\ snapshots' = Append(snapshots,
                                   [frame |-> frame, at |-> current_time,
                                    manual |-> snapshot_button])
                 /\ last_snapshot_time' = current_time
                 /\ snapshot_button' = FALSE
            ELSE UNCHANGED <<snapshots, last_snapshot_time, snapshot_button>>
  /\ shown' = Append(shown, frame)
  /\ pc' = "loop_test"
  /\ UNCHANGED <<selector, session, clicked, rendered, model_cache, loads,
                 video_file, detectedFrom, handler, cap, tfile, ret, frame,
                 reads, detected, processed_frames, ui>>

\* if save_option == "Yes" and processed_frames:
SaveChosen(choice, frames) == choice = "Yes" /\ frames # <<>>

\* After the loop: cap.release(); os.unlink(tfile.name) in the upload
\* handler; the "Save Processed Video?" radio and the VideoWriter block in
\* the camera handlers.
AfterLoop ==
  /\ pc = "release"
  /\ cap' = [cap EXCEPT !.state = "released", !.releases = @ + 1]
  /\ tfile' = IF handler = "video" THEN "deleted" ELSE tfile
  /\ rendered' = IF handler \in Cameras
                   THEN rendered \cup {"save_video"} ELSE rendered
  /\ video_file' =
       IF handler \in Cameras
            /\ SaveChosen(session.save_video, processed_frames)
         THEN [written |-> TRUE, frames |-> processed_frames, fps |-> FPS]
         ELSE video_file
  /\ pc' = IF handler = "video" THEN "chain2" ELSE "finish"
  /\ UNCHANGED <<selector, session, clicked, model_cache, loads,
                 detectedFrom, handler, ret, frame, reads, detected, shown,
                 processed_frames, now, last_snapshot_time, snapshot_button,
                 snapshots, ui>>

\* st.button(...): true only in the run its click caused.
start_button(b) == clicked = b

\* The hint as the else of one chain over all four input types.
ShowHint_OneChain(o) == o \notin GuardedOptions

\* The else of the second chain: neither camera type is selected.
ShowHint(o) == o \notin {"Webcam Detection", "IP Camera Detection"}

\* Whether the second chain opens a capture, and in which handler.
CameraStarted ==
  IF option = "Webcam Detection" /\ start_button("Start Webcam Detection")
    THEN "webcam"
    ELSE IF /\ option = "IP Camera Detection"
            /\ start_button("Start IP Camera Detection")
            /\ ip_url # ""
      THEN "ipcam"
      ELSE "none"

\* The second model.to(DEVICES) and the second chain up to the frame loop:
\* the start buttons, the URL input, cv2.VideoCapture(...), and the hint.
Chain2 ==
  /\ pc = "chain2"
  /\ rendered' =
       rendered
         \cup (IF option = "Webcam Detection"
                 THEN {"Start Webcam Detection"} ELSE {})
         \cup (IF option = "IP Camera Detection"
                 THEN {"Start IP Camera Detection"} ELSE {})
         \cup (IF /\ option = "IP Camera Detection"
                  /\ start_button("Start IP Camera Detection")
                 THEN {"ip_url"} ELSE {})
  /\ ui' = IF ShowHint(option) THEN ui \cup {"hint"} ELSE ui
  /\ \E opened \in (IF CameraStarted = "none" THEN {FALSE} ELSE BOOLEAN) :
       IF CameraStarted = "none"
         THEN /\ pc' = "finish"
              /\ UNCHANGED <<handler, cap, ret, frame, reads, detected, shown,
                             processed_frames>>
         ELSE /\ handler' = CameraStarted
              /\ cap' = [NoCap EXCEPT
                           !.state = IF opened THEN "open" ELSE "closed"]
              /\ ret' = FALSE /\ frame' = 0 /\ reads' = 0
              /\ detected' = <<>> /\ shown' = <<>>
              /\ processed_frames' = <<>>
              /\ pc' = "loop_test"
  /\ UNCHANGED <<selector, session, clicked, model_cache, loads, video_file,
                 detectedFrom, tfile, now, last_snapshot_time,
                 snapshot_button, snapshots>>

\* End of the script: the framework drops the value of every widget the run
\* did not render.
Finish ==
  /\ pc = "finish"
  /\ session' = [w \in Widgets |->
                   IF w \in rendered THEN session[w] ELSE Default[w]]
  /\ pc' = "done"
  /\ UNCHANGED <<selector, clicked, rendered, model_cache, loads, video_file,
                 detectedFrom>>
  /\ UNCHANGED runVars

Script ==
  \/ LoadModel \/ Sidebar \/ Chain1 \/ VideoSetup \/ LoopTest \/ CapRead
  \/ DetectOK \/ DetectFail \/ ImageDisplay \/ FrameOut \/ AfterLoop
  \/ Chain2 \/ Finish

\* --------------------------------------------------------------- the user

\* The values a widget can be set to.
Values(w) ==
  CASE w = "option" -> RadioOptions \cup GuardedOptions
    [] w = "save_option" -> {"Yes", "No"}
    [] w = "uploaded_image" -> BOOLEAN
    [] w = "uploaded_video" -> VideoFiles \cup {NoFile}
    [] w = "auto_snapshot" -> BOOLEAN
    [] w = "snapshot_interval" -> (1..MaxInterval) \cup {DefaultInterval}
    [] w = "ip_url" -> {"", "rtsp://camera"}
    [] w = "save_video" -> {"No", "Yes"}

\* The framework starts the script again from the top.
StartRun ==
  /\ pc' = "load" /\ rendered' = {} /\ handler' = "none" /\ cap' = NoCap
  /\ tfile' = "none" /\ ret' = FALSE /\ frame' = 0 /\ reads' = 0
  /\ detected' = <<>> /\ shown' = <<>> /\ processed_frames' = <<>>
  /\ now' = 0 /\ last_snapshot_time' = 0 /\ snapshot_button' = FALSE
  /\ snapshots' = <<>> /\ ui' = {}
  /\ UNCHANGED <<selector, model_cache, loads, video_file, detectedFrom>>

\* The user sets a rendered widget to another value.
Change(w, v) ==
  /\ RunEnded
  /\ w \in rendered
  /\ w = "option" => v \in selector
  /\ v # session[w]
  /\ session' = [session EXCEPT ![w] = v]
  /\ clicked' = "none"
  /\ StartRun

\* The user clicks a rendered button.
Click(b) ==
  /\ RunEnded
  /\ b \in rendered
  /\ clicked' = b
  /\ UNCHANGED session
  /\ StartRun

\* The user changes an inert input or asks for a rerun.
Rerun ==
  /\ RunEnded
  /\ clicked' = "none"
  /\ UNCHANGED session
  /\ StartRun

User ==
  \/ \E w \in Widgets : \E v \in Values(w) : Change(w, v)
  \/ \E b \in Buttons : Click(b)
  \/ Rerun

Next == Script \/ User

\* The program: the selector is the radio of line 22.
Spec == Init /\ [][Next]_vars

\* The handlers under every value their guards test for; its behaviours
\* include those of Spec, so what holds here holds of the program.
HandlerSpec == InitAnySelector /\ [][Next]_vars

\* A run, once started, is executed to its end.
RunsFinish == WF_vars(Script)

\* A user who keeps trying: an interaction that is possible again and again
\* is eventually made.
UserKeepsTrying ==
  /\ \A o \in RadioOptions \cup GuardedOptions : SF_vars(Change("option", o))
  /\ \A b \in Buttons : SF_vars(Click(b))
  /\ SF_vars(Change("uploaded_image", TRUE))
  /\ SF_vars(Change("uploaded_video",
                    [present |-> TRUE, opens |-> TRUE, frames |-> 1]))
  /\ SF_vars(Change("ip_url", "rtsp://camera"))
  /\ SF_vars(Change("save_video", "Yes"))

FairSpec == Spec /\ RunsFinish /\ UserKeepsTrying
FairHandlerSpec == HandlerSpec /\ RunsFinish

\* ---------------------------------------------------------------- claims

LoopPcs == {"loop_test", "read", "detect", "frame_out"}
InLoop == pc \in LoopPcs /\ handler # "image"
ReadFailed == reads > 0 /\ ~ret
Range(q) == {q[i] : i \in DOMAIN q}

\* C1: for each of the four input types some sequence of interactions makes
\* the script read a frame of that type and pass it to the detector; stated
\* for a user who keeps trying every interaction the page offers: such a
\* user eventually has had a frame of every input type reach the detector.
C1_EverySourceReached == <>(detectedFrom = Sources)

\* C2: a run of the upload handler that wrote the temporary file has deleted
\* it when the run ends, however the frame loop was left.
C2_TempFileDeleted == (RunEnded /\ tfile # "none") => tfile = "deleted"

\* C3: a capture acquired in a run has been released exactly once when the
\* run ends, no frame is read from it after the release, and so none is
\* held when the next run starts.
C3_CaptureReleasedOnce ==
  /\ cap.releases <= 1
  /\ cap.late = 0
  /\ (RunEnded /\ cap.state # "none")
       => (cap.state = "released" /\ cap.releases = 1)

\* C4 as stated: in every frame loop a failed read displays a warning and
\* breaks the loop, and the failed frame is neither detected nor displayed.
C4_FailedReadWarnsAndBreaks ==
  /\ ReadFailed => ("warning" \in ui /\ pc \notin LoopPcs)
  /\ 0 \notin Range(detected) \cup Range(shown)

\* C4 as amended: in every frame loop a failed read breaks the loop, and the
\* failed frame is neither detected nor displayed; the camera loops display
\* a warning before breaking, the upload loop displays none.
C4_FailedReadBreaks ==
  /\ ReadFailed => pc \notin LoopPcs
  /\ ReadFailed => ("warning" \in ui <=> handler \in Cameras)
  /\ "warning" \in ui => ReadFailed
  /\ 0 \notin Range(detected) \cup Range(shown)

C4_Witness ==
  /\ pc = "done" /\ handler = "video" /\ ReadFailed
  /\ detected = <<1>> /\ shown = <<1>> /\ "warning" \notin ui

\* C5: a frame loop hands every successfully read frame to the detector
\* once and in read order, is left for the statement after it only when the
\* capture is not open or a read has failed, and, on a source of finitely
\* many frames, is eventually left.
C5_LoopSafety ==
  /\ \A i \in DOMAIN detected : detected[i] = i
  /\ handler # "image" => (Len(detected) <= cap.pos
                             /\ cap.pos <= Len(detected) + 1)
  /\ pc = "release"
       => /\ ~LoopCond(cap) \/ ReadFailed
          /\ Len(detected) = cap.pos
          /\ shown = detected
C6_LoadedOnce ==
  /\ loads <= 1
  /\ pc # "load" => (loads = 1 /\ model_cache)

C6_Witness == pc = "done" /\ session # Default /\ loads = 1

\* C7: after a camera capture that processed a frame the user can have the
\* annotated video written, holding the frames of that capture at 20 frames
\* per second; stated for a user who keeps trying every interaction the page
\* offers: such a user eventually has the file.
C7_VideoEventuallySaved ==
  <>(video_file.written /\ video_file.fps = FPS /\ video_file.frames # <<>>)

\* C8: in the image handler the download is offered exactly when an image
\* is uploaded and the save toggle is "Yes"; with "No" neither the download
\* button nor the sidebar copy appears; the inline display appears either
\* way.
ImageHandlerRan ==
  /\ pc \in {"chain2", "finish", "done"}
  /\ option = "Upload Image" /\ uploaded_image
C8_DownloadIffSaveYes ==
  /\ "download_button" \in ui
       => (handler = "image" /\ uploaded_image /\ save_option = "Yes")
  /\ ImageHandlerRan
       => /\ "inline" \in ui
          /\ save_option = "Yes"
               => {"download_button", "sidebar_image"} \subseteq ui
  /\ save_option = "No" => ui \cap {"download_button", "sidebar_image"} = {}

C8_Witness ==
  /\ pc = "done" /\ handler = "image" /\ save_option = "No"
  /\ "inline" \in ui /\ "download_button" \notin ui

\* C9: in a run of the upload loop a click on "Take Snapshot" gives at most
\* one snapshot, of the first frame processed; every other snapshot needs
\* Auto Snapshot checked; consecutive snapshots are at least the snapshot
\* interval apart on the loop's clock.
C9_SnapshotRule ==
  /\ \A i \in DOMAIN snapshots :
       IF snapshots[i].manual
         THEN i = 1 /\ snapshots[i].frame = 1 /\ clicked = "Take Snapshot"
         ELSE auto_snapshot
  /\ \A i \in DOMAIN snapshots :
       i > 1 => snapshots[i].at - snapshots[i - 1].at >= snapshot_interval

C9_Witness ==
  /\ Len(snapshots) = 2 /\ snapshots[1].manual /\ ~snapshots[2].manual
  /\ snapshot_interval = 2

\* C10: a run that reaches the end of the script has displayed the hint
\* exactly when the selected input type is neither "Webcam Detection" nor
\* "IP Camera Detection"; so a run of the image or the upload handler
\* displays it too.
C10_HintUnlessCamera ==
  /\ "hint" \in ui => option \notin {"Webcam Detection", "IP Camera Detection"}
  /\ pc = "done"
       => ("hint" \in ui
             <=> option \notin {"Webcam Detection", "IP Camera Detection"})

C10_Witness ==
  /\ pc = "done" /\ handler = "video" /\ detected # <<>> /\ "hint" \in ui

====
